---------------------------- MODULE Spec2Model ----------------------------
(***************************************************************************)
(* Model of generate_callgraph.py: the regex-based definition/call         *)
(* extractor (extract_functions), the Mermaid renderer                     *)
(* (generate_mermaid_graph) and the driver (main).                         *)
(*                                                                         *)
(* Text is modelled at token level.  A line is a sequence of tokens: the   *)
(* punctuation "(", ")", "{", "}", ";" and words (what \w+ matches).       *)
(* Tokens of a line are separated by as much blank space as the patterns   *)
(* need; the line break is the token "NL" of the joined content.  A Python *)
(* dict is a sequence of [key, val] records in insertion order, a Python   *)
(* list a sequence, a Python set a set whose iteration order is any        *)
(* enumeration of its elements (str hashes are salted per process).        *)
(***************************************************************************)
EXTENDS Integers, Sequences, FiniteSets, TLC

VARIABLES
    \* ---- one call of extract_functions, line by line ----
    file,              \* the file being analysed: [readable, content]
    xpc,               \* position in extract_functions
    lineNo,            \* index of the next line of the scan loop
    functions,         \* list `functions`
    current_function,  \* `current_function` ("" is None)
    brace_count,       \* `brace_count`
    calls,             \* defaultdict `calls`, in insertion order
    errors,            \* messages printed by the except clause
    \* ---- one or two runs of main ----
    srcExists,         \* os.path.exists("src")
    dir,               \* cpp_files as os.walk yields them, with their contents
    pc,                \* position in main
    i,                 \* index of the next file of the current loop
    all_functions,     \* set `all_functions`
    all_calls,         \* defaultdict `all_calls`, in insertion order
    out,               \* lines printed so far by this run
    run,               \* 1 for the first run of main, 2 for the second
    prevOut            \* complete output of the first run

xvars == <<file, xpc, lineNo, functions, current_function, brace_count, calls, errors>>
mvars == <<srcExists, dir, pc, i, all_functions, all_calls, out, run, prevOut>>
vars == <<file, xpc, lineNo, functions, current_function, brace_count, calls, errors,
          srcExists, dir, pc, i, all_functions, all_calls, out, run, prevOut>>

\* ------------------------------------------------------------------ bounds
MaxLines == 3
MaxFiles == 2

\* ------------------------------------------------------- generic helpers
None == ""

Range(s) == {s[k] : k \in 1..Len(s)}

RECURSIVE Concat(_)
Concat(ss) == IF ss = <<>> THEN <<>> ELSE Head(ss) \o Concat(Tail(ss))

Count(s, x) == Cardinality({k \in 1..Len(s) : s[k] = x})

RECURSIVE SeqsUpTo(_, _)
SeqsUpTo(S, n) ==
    IF n = 0 THEN {<<>>}
    ELSE LET shorter == SeqsUpTo(S, n - 1)
         IN  shorter \cup {Append(s, x) : s \in {t \in shorter : Len(t) = n - 1}, x \in S}

\* ---------------------------------------------------------- dict helpers
DictKeys(d) == {d[k].key : k \in 1..Len(d)}

DictGet(d, k) ==
    IF k \in DictKeys(d)
    THEN d[CHOOSE j \in 1..Len(d) : d[j].key = k].val
    ELSE <<>>

\* d[k].extend(vs) on a defaultdict(list): the key is created on first access
DictAssign(d, k, vs) ==
    IF k \in DictKeys(d)
    THEN [j \in 1..Len(d) |-> IF d[j].key = k THEN [key |-> k, val |-> vs] ELSE d[j]]
    ELSE Append(d, [key |-> k, val |-> vs])

DictExtend(d, k, vs) ==
    IF k \in DictKeys(d)
    THEN [j \in 1..Len(d) |->
            IF d[j].key = k THEN [key |-> k, val |-> d[j].val \o vs] ELSE d[j]]
    ELSE Append(d, [key |-> k, val |-> vs])

\* ------------------------------------------------------------- the patterns
ReturnTypes == {"void", "bool", "int", "float", "char", "char*", "String"}

Excluded == {"if", "while", "for", "switch", "Serial", "printf", "delay"}

IsWord(t) == t \notin {"(", ")", "{", "}", ";", "NL", "char*"}

RECURSIVE SkipSpace(_, _)
SkipSpace(toks, p) ==
    IF p <= Len(toks) /\ toks[p] = "NL" THEN SkipSpace(toks, p + 1) ELSE p

RECURSIVE FindClose(_, _)
FindClose(toks, p) ==
    IF p > Len(toks) THEN 0
    ELSE IF toks[p] = ")" THEN p
    ELSE FindClose(toks, p + 1)

NoMatch == [name |-> None, end |-> 0]

\* func_pattern tried at position p of toks (p is a line start):
\*   ^\s*(?:void|...)\s+(\w+)\s*\([^)]*\)\s*\{
\* \s and [^)] match line breaks, so the match may run over several lines.
MatchDefAt(toks, p) ==
    LET t == SkipSpace(toks, p)
        n == SkipSpace(toks, t + 1)
        o == SkipSpace(toks, n + 1)
        c == FindClose(toks, o + 1)
        b == SkipSpace(toks, c + 1)
    IN  IF /\ t <= Len(toks) /\ toks[t] \in ReturnTypes
           /\ n <= Len(toks) /\ IsWord(toks[n])
           /\ o <= Len(toks) /\ toks[o] = "("
           /\ c # 0
           /\ b <= Len(toks) /\ toks[b] = "{"
        THEN [name |-> toks[n], end |-> b]
        ELSE NoMatch

IsLineStart(toks, p) == p = 1 \/ toks[p - 1] = "NL"

\* re.finditer(func_pattern, content, re.MULTILINE): leftmost matches, not overlapping
RECURSIVE FindAllMatches(_, _)
FindAllMatches(toks, pos) ==
    LET starts == {p \in pos..Len(toks) :
                      IsLineStart(toks, p) /\ MatchDefAt(toks, p) # NoMatch}
    IN  IF starts = {} THEN <<>>
        ELSE LET p == CHOOSE q \in starts : \A r \in starts : q <= r
                 m == MatchDefAt(toks, p)
             IN  <<m>> \o FindAllMatches(toks, m.end + 1)

\* functions.append(match.group(1)) for each match
FindAllDefs(toks, pos) ==
    LET ms == FindAllMatches(toks, pos) IN [k \in 1..Len(ms) |-> ms[k].name]

\* the file's text: its lines joined by line breaks
RECURSIVE Flatten(_)
Flatten(lines) ==
    IF lines = <<>> THEN <<>>
    ELSE IF Len(lines) = 1 THEN lines[1]
    ELSE lines[1] \o <<"NL">> \o Flatten(Tail(lines))

\* re.match(func_pattern, line) on one stripped line
LineDef(line) == MatchDefAt(line, 1).name

\* line.count('{') - line.count('}')
BraceDelta(line) == Count(line, "{") - Count(line, "}")

\* re.finditer(r'(\w+)\s*\(', line), minus the exclusion list
CallTokens(line) ==
    LET idx == {p \in 1..(Len(line) - 1) : IsWord(line[p]) /\ line[p + 1] = "("}
        all == SelectSeq([p \in 1..Len(line) |-> IF p \in idx THEN line[p] ELSE "("],
                         LAMBDA t : t # "(")
    IN  SelectSeq(all, LAMBDA w : w \notin Excluded)

RECURSIVE AppendAll(_, _, _)
AppendAll(d, k, vs) ==
    IF vs = <<>> THEN d ELSE AppendAll(DictExtend(d, k, <<Head(vs)>>), k, Tail(vs))

\* body of `for line in lines`: st is [cur, depth, calls]
\* (variant: the body is taken to end at the first line that closes more than it opens)
ScanLineEndsEarly(st, line) ==
    IF LineDef(line) # None
    THEN [cur |-> LineDef(line), depth |-> BraceDelta(line), calls |-> st.calls]
    ELSE IF st.cur # None
    THEN LET d == st.depth + BraceDelta(line)
         IN  [cur   |-> IF d <= 0 \/ BraceDelta(line) < 0 THEN None ELSE st.cur,
              depth |-> d,
              calls |-> AppendAll(st.calls, st.cur, CallTokens(line))]
    ELSE st

ScanLine(st, line) ==
    IF LineDef(line) # None
    THEN [cur |-> LineDef(line), depth |-> BraceDelta(line), calls |-> st.calls]
    ELSE IF st.cur # None
    THEN LET d == st.depth + BraceDelta(line)
         IN  [cur   |-> IF d <= 0 THEN None ELSE st.cur,
              depth |-> d,
              calls |-> AppendAll(st.calls, st.cur, CallTokens(line))]
    ELSE st

RECURSIVE ScanLines(_, _)
ScanLines(st, lines) ==
    IF lines = <<>> THEN st ELSE ScanLines(ScanLine(st, Head(lines)), Tail(lines))

ScanStart == [cur |-> None, depth |-> 0, calls |-> <<>>]

\* extract_functions(file_path) as a whole; raised: an exception left the function
\* (variant: the read is outside the try block)
ExtractFunctionsNoCatch(path, f) ==
    IF f.readable
    THEN [functions |-> FindAllDefs(Flatten(f.content), 1),
          calls     |-> ScanLines(ScanStart, f.content).calls,
          errors    |-> <<>>,
          raised    |-> FALSE]
    ELSE [functions |-> <<>>, calls |-> <<>>, errors |-> <<>>, raised |-> TRUE]

ExtractFunctions(path, f) ==
    IF f.readable
    THEN [functions |-> FindAllDefs(Flatten(f.content), 1),
          calls     |-> ScanLines(ScanStart, f.content).calls,
          errors    |-> <<>>,
          raised    |-> FALSE]
    ELSE [functions |-> <<>>, calls |-> <<>>, errors |-> <<path>>, raised |-> FALSE]

\* ------------------------------------------------ inputs of the extractor
Palette ==
    { <<"void", "f", "(", ")", "{">>,
      <<"void", "g", "(", ")", "{", "h", "(", ")", ";", "}">>,
      <<"h", "(", ")", ";">>,
      <<"if", "(", "ok", ")", "{">>,
      <<"}">>,
      <<"void">>,
      <<"f", "(", ")", "{">>,
      <<"g", "(", ")", ";", "}">>,
      <<"void", "g", "(">> }

Unreadable == [readable |-> FALSE, content |-> <<>>]

Readable(c) == [readable |-> TRUE, content |-> c]

ExtractInputs == {Unreadable} \cup {Readable(c) : c \in SeqsUpTo(Palette, MaxLines)}

MainIdle ==
    /\ srcExists = TRUE /\ dir = <<>> /\ pc = "idle" /\ i = 0
    /\ all_functions = {} /\ all_calls = <<>> /\ out = <<>> /\ run = 0 /\ prevOut = <<>>

InitExtract ==
    /\ file \in ExtractInputs
    /\ xpc = "open" /\ lineNo = 0 /\ functions = <<>> /\ current_function = None
    /\ brace_count = 0 /\ calls = <<>> /\ errors = <<>>
    /\ MainIdle

\* lines 17-29: the file is read, the definitions are found, the scan is set up
XRead ==
    /\ xpc = "open" /\ file.readable
    /\ functions' = FindAllDefs(Flatten(file.content), 1)
    /\ current_function' = None /\ brace_count' = 0 /\ lineNo' = 1
    /\ xpc' = "scan"
    /\ UNCHANGED <<file, calls, errors>>
    /\ UNCHANGED mvars

\* lines 55-56: open or read raised
XExcept ==
    /\ xpc = "open" /\ ~file.readable
    /\ errors' = Append(errors, "x.cpp")
    /\ xpc' = "return"
    /\ UNCHANGED <<file, lineNo, functions, current_function, brace_count, calls>>
    /\ UNCHANGED mvars

\* lines 31-53: one iteration of the scan loop
XScan ==
    /\ xpc = "scan" /\ lineNo <= Len(file.content)
    /\ LET st == ScanLine([cur |-> current_function, depth |-> brace_count,
                           calls |-> calls], file.content[lineNo])
       IN  /\ current_function' = st.cur
           /\ brace_count' = st.depth
           /\ calls' = st.calls
    /\ lineNo' = lineNo + 1
    /\ UNCHANGED <<file, xpc, functions, errors>>
    /\ UNCHANGED mvars

\* the loop is exhausted
XScanEnd ==
    /\ xpc = "scan" /\ lineNo > Len(file.content)
    /\ xpc' = "return"
    /\ UNCHANGED <<file, lineNo, functions, current_function, brace_count, calls, errors>>
    /\ UNCHANGED mvars

\* line 58
XReturn ==
    /\ xpc = "return"
    /\ xpc' = "done"
    /\ UNCHANGED <<file, lineNo, functions, current_function, brace_count, calls, errors>>
    /\ UNCHANGED mvars

NextExtract == XRead \/ XExcept \/ XScan \/ XScanEnd \/ XReturn

SpecExtract == InitExtract /\ [][NextExtract]_vars

\* ------------------------------------------------------------ the output
\* one printed line; kind names the print statement that wrote it
Line(kind, n, m, name, names) ==
    [kind |-> kind, n |-> n, m |-> m, name |-> name, names |-> names]

\* ------------------------------------------------------------- sorted()
\* str comparison is by code point; the words a sort can meet, in that order
NameOrder ==
    <<"bar", "foo", "helper", "initSensors", "loop", "publish", "readSensor", "setup">>

Rank(w) == CHOOSE k \in 1..Len(NameOrder) : NameOrder[k] = w

RECURSIVE Insert(_, _)
Insert(s, w) ==
    IF s = <<>> THEN <<w>>
    ELSE IF Rank(w) < Rank(Head(s)) THEN <<w>> \o s
    ELSE <<Head(s)>> \o Insert(Tail(s), w)

\* sorted(list)
RECURSIVE Sorted(_)
Sorted(s) == IF s = <<>> THEN <<>> ELSE Insert(Sorted(Tail(s)), Head(s))

\* sorted(set(list))
RECURSIVE SortedSet(_)
SortedSet(S) ==
    IF S = {} THEN <<>>
    ELSE LET w == CHOOSE x \in S : \A y \in S : Rank(x) <= Rank(y)
         IN  <<w>> \o SortedSet(S \ {w})

\* ------------------------------------------------- generate_mermaid_graph
\* the orders in which `for func in all_functions` can enumerate the set
SetIterOrders(S) == {s \in [1..Cardinality(S) -> S] : Range(s) = S}

\* node_id[func] = f"F{counter}": the counter stands for the identifier
NodeId(order, func) == (CHOOSE k \in 1..Len(order) : order[k] = func) - 1

NodeLines(order) == [k \in 1..Len(order) |-> Line("node", k - 1, 0, order[k], <<>>)]

\* lines 80-83 for one caller
EdgeLinesDedup(order, caller, callees) ==
    IF caller \in Range(order)
    THEN LET known == SortedSet(Range(callees) \cap Range(order))
         IN  [k \in 1..Len(known) |->
                 Line("edge", NodeId(order, caller), NodeId(order, known[k]), "", <<>>)]
    ELSE <<>>

EdgeLines(order, caller, callees) ==
    IF caller \in Range(order)
    THEN LET known == SelectSeq(callees, LAMBDA c : c \in Range(order))
         IN  [k \in 1..Len(known) |->
                 Line("edge", NodeId(order, caller), NodeId(order, known[k]), "", <<>>)]
    ELSE <<>>

GenerateMermaidGraph(order, callsDict) ==
    <<Line("mermaid_open", 0, 0, "", <<>>), Line("graph_td", 0, 0, "", <<>>)>>
    \o NodeLines(order)
    \o Concat([k \in 1..Len(callsDict) |->
                  EdgeLines(order, callsDict[k].key, callsDict[k].val)])
    \o <<Line("mermaid_close", 0, 0, "", <<>>)>>

\* -------------------------------------------------------------------- main
\* lines 113-114
RECURSIVE MergeCallsReplace(_, _)
MergeCallsReplace(acc, cs) ==
    IF cs = <<>> THEN acc
    ELSE MergeCallsReplace(DictAssign(acc, Head(cs).key, Head(cs).val), Tail(cs))

RECURSIVE MergeCalls(_, _)
MergeCalls(acc, cs) ==
    IF cs = <<>> THEN acc
    ELSE MergeCalls(DictExtend(acc, Head(cs).key, Head(cs).val), Tail(cs))

ErrorLines(errs) == [k \in 1..Len(errs) |-> Line("error", errs[k], 0, "", <<>>)]

\* line 128: the callee list the report shows for func
ReportCalleesMerged(fileCalls, merged, func) == DictGet(merged, func)

ReportCallees(fileCalls, merged, func) == DictGet(fileCalls, func)

\* lines 125-132 for one file
ReportLines(path, r, merged) ==
    IF r.functions = <<>> THEN <<>>
    ELSE LET fs == Sorted(r.functions)
         IN  <<Line("heading", path, 0, "", <<>>)>>
             \o [k \in 1..Len(fs) |->
                   LET callees == ReportCallees(r.calls, merged, fs[k])
                   IN  IF callees # <<>>
                       THEN Line("func_calls", 0, 0, fs[k], SortedSet(Range(callees)))
                       ELSE Line("func", 0, 0, fs[k], <<>>)]

RECURSIVE SumLens(_)
SumLens(d) == IF d = <<>> THEN 0 ELSE Len(Head(d).val) + SumLens(Tail(d))

\* ---------------------------------------------------- the analysed tree
SetupLoop ==
    << <<"void", "setup", "(", ")", "{", "initSensors", "(", ")", ";", "}">>,
       <<"void", "loop", "(", ")", "{", "readSensor", "(", ")", ";",
         "if", "(", "ok", ")", "{", "publish", "(", ")", ";", "}", "}">> >>

HelperFoo ==
    << <<"void", "helper", "(", ")", "{">>,
       <<"foo", "(", ")", ";", "foo", "(", ")", ";">>,
       <<"}">> >>

HelperBar ==
    << <<"void", "helper", "(", ")", "{">>,
       <<"bar", "(", ")", ";", "publish", "(", ")", ";", "}">>,
       <<"void", "bar", "(", ")", "{">>,
       <<"}">> >>

FooTwice ==
    << <<"void", "foo", "(", ")", "{">>,
       <<"helper", "(", ")", ";", "printf", "(", "x", ")", ";",
         "bar", "(", ")", ";", "helper", "(", ")", ";">>,
       <<"}">> >>

Overloads ==
    << <<"void", "foo", "(", "int", "a", ")", "{">>,
       <<"publish", "(", "a", ")", ";">>,
       <<"}">>,
       <<"void", "foo", "(", "float", "b", ")", "{">>,
       <<"}">> >>

NoDefinitions ==
    << <<"int", "x", ";">>, <<"foo", "(", ")", ";">> >>

Files ==
    {Unreadable} \cup
    {Readable(c) : c \in {SetupLoop, HelperFoo, HelperBar, FooTwice, Overloads, NoDefinitions}}

ExtractIdle ==
    /\ file = Unreadable /\ xpc = "idle" /\ lineNo = 0 /\ functions = <<>>
    /\ current_function = None /\ brace_count = 0 /\ calls = <<>> /\ errors = <<>>

Init ==
    /\ srcExists \in BOOLEAN
    /\ dir \in IF srcExists THEN SeqsUpTo(Files, MaxFiles) ELSE {<<>>}
    /\ pc = "start" /\ i = 0 /\ all_functions = {} /\ all_calls = <<>>
    /\ out = <<>> /\ run = 1 /\ prevOut = <<>>
    /\ ExtractIdle

\* lines 90-93
MainNoSrc ==
    /\ pc = "start" /\ ~srcExists
    /\ out' = Append(out, Line("no_src", 0, 0, "", <<>>))
    /\ pc' = "done"
    /\ UNCHANGED <<srcExists, dir, i, all_functions, all_calls, run, prevOut>>
    /\ UNCHANGED xvars

\* lines 95-106
MainStart ==
    /\ pc = "start" /\ srcExists
    /\ all_functions' = {} /\ all_calls' = <<>>
    /\ out' = out \o <<Line("title", 0, 0, "", <<>>), Line("analyzing", Len(dir), 0, "", <<>>)>>
    /\ pc' = "fold" /\ i' = 1
    /\ UNCHANGED <<srcExists, dir, run, prevOut>>
    /\ UNCHANGED xvars

\* lines 108-114: one iteration
MainFold ==
    /\ pc = "fold" /\ i <= Len(dir)
    /\ LET r == ExtractFunctions(i, dir[i])
       IN  IF r.raised
           THEN /\ pc' = "aborted"
                /\ out' = Append(out, Line("processing", i, 0, "", <<>>))
                /\ UNCHANGED <<i, all_functions, all_calls>>
           ELSE /\ out' = Append(out, Line("processing", i, 0, "", <<>>)) \o ErrorLines(r.errors)
                /\ all_functions' = all_functions \cup Range(r.functions)
                /\ all_calls' = MergeCalls(all_calls, r.calls)
                /\ i' = i + 1
                /\ pc' = pc
    /\ UNCHANGED <<srcExists, dir, run, prevOut>>
    /\ UNCHANGED xvars

\* lines 116-119
MainTotals ==
    /\ pc = "fold" /\ i > Len(dir)
    /\ out' = out \o <<Line("found_functions", Cardinality(all_functions), 0, "", <<>>),
                       Line("found_calls", SumLens(all_calls), 0, "", <<>>),
                       Line("graph_header", 0, 0, "", <<>>)>>
    /\ pc' = "diagram"
    /\ UNCHANGED <<srcExists, dir, i, all_functions, all_calls, run, prevOut>>
    /\ UNCHANGED xvars

\* lines 120-122
MainDiagram ==
    /\ pc = "diagram"
    /\ \E order \in SetIterOrders(all_functions) :
          out' = out \o GenerateMermaidGraph(order, all_calls)
                     \o <<Line("list_header", 0, 0, "", <<>>)>>
    /\ pc' = "report" /\ i' = 1
    /\ UNCHANGED <<srcExists, dir, all_functions, all_calls, run, prevOut>>
    /\ UNCHANGED xvars

\* lines 123-132: one iteration
MainReport ==
    /\ pc = "report" /\ i <= Len(dir)
    /\ LET r == ExtractFunctions(i, dir[i])
       IN  IF r.raised
           THEN /\ pc' = "aborted" /\ UNCHANGED <<i, out>>
           ELSE /\ out' = out \o ErrorLines(r.errors) \o ReportLines(i, r, all_calls)
                /\ i' = i + 1
                /\ pc' = pc
    /\ UNCHANGED <<srcExists, dir, all_functions, all_calls, run, prevOut>>
    /\ UNCHANGED xvars

\* main returns
MainDone ==
    /\ pc = "report" /\ i > Len(dir)
    /\ pc' = "done"
    /\ UNCHANGED <<srcExists, dir, i, all_functions, all_calls, out, run, prevOut>>
    /\ UNCHANGED xvars

\* the program is started again on the unchanged directory
MainAgain ==
    /\ pc = "done" /\ run = 1
    /\ run' = 2 /\ prevOut' = out
    /\ out' = <<>> /\ pc' = "start" /\ i' = 0
    /\ all_functions' = {} /\ all_calls' = <<>>
    /\ UNCHANGED <<srcExists, dir>>
    /\ UNCHANGED xvars

Next == MainNoSrc \/ MainStart \/ MainFold \/ MainTotals \/ MainDiagram \/ MainReport \/ MainDone

Spec == Init /\ [][Next]_vars

NextTwice == Next \/ MainAgain

SpecTwice == Init /\ [][NextTwice]_vars

\* ======================================================================
\* Properties of extract_functions (checked under SpecExtract)
\* ======================================================================
Scanned == IF xpc = "scan" THEN lineNo - 1 ELSE Len(file.content)

AtLineBoundary == xpc \in {"scan", "return", "done"} /\ file.readable

\* the lines among the first k that the scan takes for definition lines
DefLinesUpTo(lines, k) == {d \in 1..k : LineDef(lines[d]) # None}

RECURSIVE DepthFrom(_, _, _)
\* braces opened minus braces closed on lines d..j
DepthFrom(lines, d, j) ==
    IF j < d THEN 0 ELSE DepthFrom(lines, d, j - 1) + BraceDelta(lines[j])

\* every line after d up to j leaves the depth above zero
OpenThrough(lines, d, j) == \A l \in (d + 1)..j : DepthFrom(lines, d, l) > 0

\* the last line after definition line d, up to k, that belongs to d's tracking:
\* it stops before the next definition line and with the first line that
\* leaves the depth at or below zero
TrackedEnd(lines, d, k) ==
    LET stops == {j \in (d + 1)..k :
                     \/ LineDef(lines[j]) # None
                     \/ DepthFrom(lines, d, j) <= 0}
    IN  IF stops = {} THEN k
        ELSE LET j == CHOOSE q \in stops : \A r \in stops : q <= r
             IN  IF LineDef(lines[j]) # None THEN j - 1 ELSE j

TrackedCalls(lines, d, k) ==
    Concat([j \in 1..(TrackedEnd(lines, d, k) - d) |-> CallTokens(lines[d + j])])

RECURSIVE ExpectedCallees(_, _, _, _)
\* the callees of name after k lines: the tracked calls of its definition lines, in order
ExpectedCallees(lines, name, from, k) ==
    IF from > k THEN <<>>
    ELSE (IF LineDef(lines[from]) = name THEN TrackedCalls(lines, from, k) ELSE <<>>)
         \o ExpectedCallees(lines, name, from + 1, k)

LineWords(lines) == UNION {Range(lines[k]) : k \in 1..Len(lines)}

\* C8 (amended): after a definition line has set current_function to f, and
\* while no later line is itself a definition line, current_function stays f
\* as long as the depth is above zero after every following line, every
\* non-excluded call token of those lines (the closing line included) is
\* appended to f's callee list, and current_function is cleared exactly at
\* the first following line after which the depth is at or below zero.
C8_BodyTracking ==
    AtLineBoundary =>
        LET lines == file.content
            k     == Scanned
            defs  == DefLinesUpTo(lines, k)
        IN  /\ defs = {} => current_function = None /\ calls = <<>>
            /\ defs # {} =>
                 LET d == CHOOSE q \in defs : \A r \in defs : r <= q
                 IN  /\ current_function =
                            IF OpenThrough(lines, d, k) THEN LineDef(lines[d]) ELSE None
                     /\ OpenThrough(lines, d, k) => brace_count = DepthFrom(lines, d, k)
            /\ \A w \in LineWords(lines) \cup DictKeys(calls) :
                   DictGet(calls, w) = ExpectedCallees(lines, w, 1, k)

\* C8 witness: inside f, an if-block was opened and closed again, the call
\* on the closing line went to f, and f is still being tracked
C8_Witness ==
    /\ xpc = "scan" /\ lineNo = 4
    /\ LineDef(file.content[1]) = "f"
    /\ BraceDelta(file.content[2]) = 1 /\ BraceDelta(file.content[3]) = -1
    /\ current_function = "f" /\ brace_count = 1
    /\ DictGet(calls, "f") = <<"g">>

\* C8 as stated: for every definition line d, while the depth stays above
\* zero after every following line, current_function stays the function of d
C8_AsStated ==
    AtLineBoundary =>
        \A d \in DefLinesUpTo(file.content, Scanned) :
            OpenThrough(file.content, d, Scanned)
                => current_function = LineDef(file.content[d])

\* C10: at every line boundary current_function is set only if the brace
\* depth is strictly positive
C10_CurrentOnlyAtPositiveDepth ==
    AtLineBoundary => (current_function # None => brace_count > 0)

\* C7: the defined-functions list is exactly the sequence of names the line
\* scan set as current_function, and every caller key is a defined function
ScanDefNames(lines) ==
    LET ds == SelectSeq(lines, LAMBDA l : LineDef(l) # None)
    IN  [k \in 1..Len(ds) |-> LineDef(ds[k])]

C7_DefinitionsAgreeWithScan ==
    (xpc = "done" /\ file.readable) =>
        /\ functions = ScanDefNames(file.content)
        /\ DictKeys(calls) \subseteq Range(functions)

\* the position of the brace that closes the body opened at position b, or
\* the end of the text when it is never closed
RECURSIVE BodyClose(_, _, _)
BodyClose(toks, p, depth) ==
    IF p > Len(toks) THEN Len(toks) + 1
    ELSE LET nd == depth + (IF toks[p] = "{" THEN 1 ELSE IF toks[p] = "}" THEN -1 ELSE 0)
         IN  IF nd = 0 THEN p ELSE BodyClose(toks, p + 1, nd)

\* the non-excluded call-shaped tokens strictly inside the body of match m
BodyCalls(toks, m) ==
    LET e   == BodyClose(toks, m.end + 1, 1)
        idx == {p \in (m.end + 1)..(e - 1) :
                   /\ p < Len(toks) /\ IsWord(toks[p]) /\ toks[p + 1] = "("
                   /\ toks[p] \notin Excluded}
    IN  SelectSeq([p \in 1..Len(toks) |-> IF p \in idx THEN toks[p] ELSE "("],
                  LAMBDA t : t # "(")

NotNested(toks, ms) ==
    \A a, b \in 1..Len(ms) : a < b => ms[b].end > BodyClose(toks, ms[a].end + 1, 1)

\* C4: when the recognized definitions are not nested, each defined function
\* is recorded with exactly the non-excluded call tokens inside its body, in
\* source order, wherever the body is written
C4_CalleesAreBodyCalls ==
    (xpc = "done" /\ file.readable) =>
        LET toks == Flatten(file.content)
            ms   == FindAllMatches(toks, 1)
        IN  NotNested(toks, ms) =>
              \A f \in Range(functions) :
                 DictGet(calls, f) =
                    Concat([k \in 1..Len(ms) |->
                              IF ms[k].name = f THEN BodyCalls(toks, ms[k]) ELSE <<>>])

\* ======================================================================
\* Properties of main and generate_mermaid_graph (checked under Spec)
\* ======================================================================
\* what extract_functions returns for the k-th file of the tree
Extracted(k) == ExtractFunctions(k, dir[k])

\* the files the first loop has folded in
Folded == IF pc = "fold" THEN i - 1 ELSE IF pc = "start" THEN 0 ELSE Len(dir)

Accumulating == pc \in {"fold", "diagram", "report", "done"} /\ srcExists

OfKind(kind) == SelectSeq(out, LAMBDA l : l.kind = kind)

\* C5: the project-wide callee list of every caller is the concatenation, in
\* file order, of the callee lists recorded for that name in each folded file,
\* and the known-functions set is the union of the files' defined functions
C5_AggregationExtends ==
    Accumulating =>
        /\ \A c \in DictKeys(all_calls) \cup UNION {DictKeys(Extracted(k).calls) : k \in 1..Folded} :
              DictGet(all_calls, c) =
                 Concat([k \in 1..Folded |-> DictGet(Extracted(k).calls, c)])
        /\ all_functions = UNION {Range(Extracted(k).functions) : k \in 1..Folded}

\* C5 witness: two files define helper, one calls foo and the other bar, and
\* helper's list holds the callees of both
C5_Witness ==
    /\ pc = "done" /\ Len(dir) = 2
    /\ DictGet(Extracted(1).calls, "helper") = <<"foo", "foo">>
    /\ DictGet(Extracted(2).calls, "helper") = <<"bar", "publish">>
    /\ DictGet(all_calls, "helper") = <<"foo", "foo", "bar", "publish">>

Diagrammed == pc \in {"report", "done"} /\ srcExists

\* the function a node identifier of the diagram stands for
NodeNames(id) == {l.name : l \in {x \in Range(OfKind("node")) : x.n = id}}

\* the number of edge lines from a's node to b's node
EdgeCount(a, b) ==
    LET es == OfKind("edge")
    IN  Cardinality({k \in 1..Len(es) : a \in NodeNames(es[k].n) /\ b \in NodeNames(es[k].m)})

CalleeNames == UNION {Range(all_calls[k].val) : k \in 1..Len(all_calls)}

\* C3: the number of edge lines a --> b is the number of occurrences of b in
\* a's aggregated callee list when both are known functions and zero
\* otherwise; every edge joins two declared nodes
C3_EdgesOnlyBetweenKnown ==
    Diagrammed =>
        /\ \A l \in Range(OfKind("edge")) :
              Cardinality(NodeNames(l.n)) = 1 /\ Cardinality(NodeNames(l.m)) = 1
        /\ \A a, b \in all_functions \cup DictKeys(all_calls) \cup CalleeNames :
              EdgeCount(a, b) =
                 IF a \in all_functions /\ b \in all_functions
                 THEN Count(DictGet(all_calls, a), b)
                 ELSE 0

\* C3 witness: a repeated call between known functions gave two edge lines,
\* and a call to a function defined nowhere gave none
C3_Witness ==
    /\ Diagrammed
    /\ EdgeCount("foo", "helper") = 2
    /\ "publish" \in Range(DictGet(all_calls, "helper")) /\ "publish" \notin all_functions

\* first-discovery order of the defined functions
RECURSIVE Dedup(_, _)
Dedup(s, seen) ==
    IF s = <<>> THEN <<>>
    ELSE IF Head(s) \in seen THEN Dedup(Tail(s), seen)
    ELSE <<Head(s)>> \o Dedup(Tail(s), seen \cup {Head(s)})

DiscoveryOrder == Dedup(Concat([k \in 1..Len(dir) |-> Extracted(k).functions]), {})

\* C1: the function discovered k-th gets identifier F(k-1) and the node
\* declarations are printed in discovery order
C1_NodeIdsFollowDiscovery ==
    Diagrammed => OfKind("node") = NodeLines(DiscoveryOrder)

\* C2: two complete runs of main over the same unchanged directory print the
\* same lines
C2_RunsIdentical ==
    (run = 2 /\ pc = "done") => out = prevOut

\* C6: an unreadable file yields an error naming it and empty results, leaves
\* the accumulators as they were, and the run goes on over every other file in
\* both passes and prints the totals, the diagram and the report
ReadableFiles(n) == SelectSeq(SubSeq(dir, 1, n), LAMBDA f : f.readable)

RECURSIVE FoldFunctions(_)
FoldFunctions(fs) ==
    IF fs = <<>> THEN {}
    ELSE Range(FindAllDefs(Flatten(Head(fs).content), 1)) \cup FoldFunctions(Tail(fs))

RECURSIVE FoldCalls(_, _)
FoldCalls(acc, fs) ==
    IF fs = <<>> THEN acc
    ELSE FoldCalls(MergeCalls(acc, ScanLines(ScanStart, Head(fs).content).calls), Tail(fs))

C6_ReadFailureIsolated ==
    /\ pc # "aborted"
    /\ \A k \in 1..Len(dir) :
          ~dir[k].readable =>
              Extracted(k) = [functions |-> <<>>, calls |-> <<>>,
                              errors |-> <<k>>, raised |-> FALSE]
    /\ Accumulating =>
          /\ all_functions = FoldFunctions(ReadableFiles(Folded))
          /\ all_calls = FoldCalls(<<>>, ReadableFiles(Folded))
    /\ (pc = "done" /\ srcExists) =>
          /\ [k \in 1..Len(OfKind("processing")) |-> OfKind("processing")[k].n]
                = [k \in 1..Len(dir) |-> k]
          /\ \A k \in 1..Len(dir) :
                /\ Count([j \in 1..Len(OfKind("error")) |-> OfKind("error")[j].n], k)
                      = IF dir[k].readable THEN 0 ELSE 2
                /\ (dir[k].readable /\ Extracted(k).functions # <<>>)
                      => \E l \in Range(OfKind("heading")) : l.n = k
          /\ \A kind \in {"found_functions", "found_calls", "mermaid_open",
                          "mermaid_close", "list_header"} : Len(OfKind(kind)) = 1

\* C6 witness: the run ended after an unreadable file was followed by a file
\* with definitions, which was analysed and reported
C6_Witness ==
    /\ pc = "done" /\ Len(dir) = 2
    /\ ~dir[1].readable /\ dir[2].readable
    /\ all_functions # {}
    /\ \E l \in Range(OfKind("heading")) : l.n = 2
    /\ \E l \in Range(OfKind("error")) : l.n = 1

\* the lines printed after the "Function List by File" title, error messages aside
ReportPart ==
    LET at == CHOOSE k \in 1..Len(out) : out[k].kind = "list_header"
    IN  SelectSeq(SubSeq(out, at + 1, Len(out)), LAMBDA l : l.kind # "error")

\* the function lines printed under the heading of file p
Section(p) ==
    LET rp    == ReportPart
        h     == CHOOSE k \in 1..Len(rp) : rp[k].kind = "heading" /\ rp[k].n = p
        later == {k \in (h + 1)..Len(rp) : rp[k].kind = "heading"}
        e     == IF later = {} THEN Len(rp) + 1
                 ELSE CHOOSE q \in later : \A r \in later : q <= r
    IN  SubSeq(rp, h + 1, e - 1)

HeadingPaths ==
    LET hs == SelectSeq(ReportPart, LAMBDA l : l.kind = "heading")
    IN  [k \in 1..Len(hs) |-> hs[k].n]

FilesWithFunctions ==
    LET ix == SelectSeq([k \in 1..Len(dir) |-> k], LAMBDA k : Extracted(k).functions # <<>>)
    IN  ix

StrictlySorted(ws) == \A k \in 1..(Len(ws) - 1) : Rank(ws[k]) < Rank(ws[k + 1])

WeaklySorted(ws) == \A k \in 1..(Len(ws) - 1) : Rank(ws[k]) <= Rank(ws[k + 1])

\* the callees shown on line l of file p are the distinct callees recorded for
\* l's function in that file alone, sorted; none are shown when it has none
LineShowsOwnCallees(p, l) ==
    LET own == Range(DictGet(Extracted(p).calls, l.name))
    IN  /\ l.kind = (IF own = {} THEN "func" ELSE "func_calls")
        /\ Range(l.names) = own
        /\ StrictlySorted(l.names)

SectionNames(p) == [k \in 1..Len(Section(p)) |-> Section(p)[k].name]

\* C9 (amended): a heading is printed for exactly the files with a defined
\* function; under it there is one line per entry of the file's
\* defined-functions list, in lexicographic order, so that a name the file
\* defines twice is listed twice; each line shows the sorted distinct callees
\* recorded for that function in that file alone, or the name alone
C9_ReportPerDefinition ==
    (pc = "done" /\ srcExists) =>
        /\ HeadingPaths = FilesWithFunctions
        /\ \A k \in 1..Len(ReportPart) : ReportPart[k].kind \in {"heading", "func", "func_calls"}
        /\ \A p \in Range(FilesWithFunctions) :
              /\ WeaklySorted(SectionNames(p))
              /\ \A w \in Range(SectionNames(p)) \cup Range(Extracted(p).functions) :
                    Count(SectionNames(p), w) = Count(Extracted(p).functions, w)
              /\ \A l \in Range(Section(p)) : LineShowsOwnCallees(p, l)

\* C9 witness: the report of a tree where one file defines foo twice and
\* another has a function with two distinct callees, one of them called twice
C9_Witness ==
    /\ pc = "done" /\ srcExists /\ Len(dir) = 2
    /\ Extracted(1).functions = <<"foo", "foo">>
    /\ SectionNames(1) = <<"foo", "foo">>
    /\ 2 \in Range(HeadingPaths)
    /\ \E l \in Range(Section(2)) :
          l.name = "foo" /\ l.names = <<"bar", "helper">>

\* C9 as stated: exactly one line per function name defined in the file
C9_AsStated ==
    (pc = "done" /\ srcExists) =>
        /\ HeadingPaths = FilesWithFunctions
        /\ \A p \in Range(FilesWithFunctions) :
              /\ StrictlySorted(SectionNames(p))
              /\ Range(SectionNames(p)) = Range(Extracted(p).functions)
              /\ \A l \in Range(Section(p)) : LineShowsOwnCallees(p, l)

=============================================================================
